---------------------------- MODULE Spec2Model ----------------------------
(***************************************************************************)
(* PDF summarizer chat application (src/main.py).                          *)
(*                                                                         *)
(* A text is a sequence of one-character strings.  A PDF is a record       *)
(* [readable, pages]: readable = FALSE is a file PdfReader cannot open,    *)
(* pages is the sequence of the texts page.extract_text() returns.         *)
(*                                                                         *)
(* Three specifications:                                                   *)
(*   SpecNorm   extract_and_clean_text_from_pdf applied to bounded PDFs,   *)
(*              then applied again to its own output as a one-page PDF;    *)
(*   SpecHyphen the hyphen substitution (line 32) applied to bounded texts;*)
(*   Spec       one chat session: handle_message and on_create_quiz, one   *)
(*              action per stretch of code between two awaits.             *)
(***************************************************************************)
EXTENDS Naturals, Sequences, FiniteSets

VARIABLES
    npc,        \* normalizer run: "start", "done", "second"
    pdf,        \* the PDF handed to extract_and_clean_text_from_pdf
    res,        \* its outcome
    res2,       \* outcome of the second pass over res.text
    hin,        \* SpecHyphen: text handed to the hyphen substitution
    hout,       \* SpecHyphen: <<text>> it produced, <<>> before it ran
    hpc,        \* handle_message: "idle" or the await it is suspended at
    runs,       \* number of handle_message runs started
    file,       \* pdf_file: <<>> or <<element>>
    bound,      \* whether tmp_pdf_path is in locals()
    text,       \* original_text of handle_message
    calls,      \* calls of extract_and_clean_text_from_pdf in this run
    raised,     \* the exception leaving handle_message, "" when none
    hsent,      \* messages sent by the current (or last) handle_message run
    disk,       \* runs whose temporary file exists
    session,    \* user_session["original_pdf_text"]: [set, text]
    lastGood,   \* history: what the last successful extraction returned
    buttons,    \* whether a Create Quiz button has been shown
    qpc,        \* on_create_quiz: "idle" or "generating"
    clicks,     \* number of on_create_quiz runs started
    qtext,      \* original_text of on_create_quiz
    qsent       \* messages sent by the current (or last) on_create_quiz run

normVars == <<npc, pdf, res, res2, hin, hout>>
chatVars == <<hpc, runs, file, bound, text, calls, raised, hsent, disk,
              session, lastGood, buttons, qpc, clicks, qtext, qsent>>
vars == <<normVars, chatVars>>

----------------------------------------------------------------------------
(* Bounds *)

\* total number of characters of a generated document
MaxChars == 4
\* number of pages of a generated document
MaxPages == 2
\* length of a text handed to the hyphen substitution alone
MaxHyphenText == 7
\* messages handled in one chat session
MaxRuns == 2
\* Create Quiz clicks in one chat session
MaxClicks == 2

----------------------------------------------------------------------------
(* Characters and the classes of Python's re module *)

NL == "\n"
SP == " "
HY == "-"

Alphabet == {"a", "1", HY, SP, NL}

\* \d, \w and \s
Digits == {"1"}
WordChars == {"a", "1"}
Spaces == {SP, NL}

IsDigit(c) == c \in Digits
IsWord(c) == c \in WordChars
IsSpace(c) == c \in Spaces

\* length of the longest run of characters of class, in s from index i on
RECURSIVE Run(_, _, _)
Run(class, s, i) ==
    IF i > Len(s) \/ s[i] \notin class THEN 0 ELSE 1 + Run(class, s, i + 1)

Drop(s, n) == SubSeq(s, n + 1, Len(s))
Take(s, n) == SubSeq(s, 1, n)

----------------------------------------------------------------------------
(* extract_and_clean_text_from_pdf *)

\* bug variant: replaces each newline, not each run of newlines
RECURSIVE SubNewlinesEach(_)
SubNewlinesEach(s) ==
    IF s = <<>> THEN <<>>
    ELSE <<IF Head(s) = NL THEN SP ELSE Head(s)>> \o SubNewlinesEach(Tail(s))

\* re.sub(r'\n+', ' ', s), line 30
RECURSIVE SubNewlines(_)
SubNewlines(s) ==
    IF s = <<>> THEN <<>>
    ELSE LET n == Run({NL}, s, 1)
         IN  IF n > 0 THEN <<SP>> \o SubNewlines(Drop(s, n))
             ELSE <<Head(s)>> \o SubNewlines(Tail(s))

\* re.sub(r'(\w+)-\s+(\w+)', r'\1\2', s), line 32: leftmost, greedy, non-overlapping.
\* A match starts at a word character; \w+ takes the whole run of word
\* characters (a shorter one is followed by a word character, not a hyphen),
\* \s+ the whole run of whitespace.  The scan resumes after the match.
RECURSIVE SubHyphens(_)
SubHyphens(s) ==
    IF s = <<>> THEN <<>>
    ELSE LET w1 == Run(WordChars, s, 1)
             ws == Run(Spaces, s, w1 + 2)
             w2 == Run(WordChars, s, w1 + 2 + ws)
         IN  IF w1 = 0 THEN <<Head(s)>> \o SubHyphens(Tail(s))
             ELSE IF w1 < Len(s) /\ s[w1 + 1] = HY /\ ws > 0 /\ w2 > 0
                  THEN Take(s, w1) \o SubSeq(s, w1 + 2 + ws, w1 + 1 + ws + w2)
                         \o SubHyphens(Drop(s, w1 + 1 + ws + w2))
                  ELSE Take(s, w1) \o SubHyphens(Drop(s, w1))

\* bug variant: removes only digit runs that stand between whitespace or
\* the ends of the text
RECURSIVE SubNumbersStandalone(_, _)
SubNumbersStandalone(s, free) ==
    IF s = <<>> THEN <<>>
    ELSE LET ws == Run(Spaces, s, 1)
             ds == Run(Digits, s, ws + 1)
             ts == Run(Spaces, s, ws + ds + 1)
         IN  IF ds > 0 /\ (ws > 0 \/ free) /\ (ts > 0 \/ ws + ds = Len(s))
             THEN <<SP>> \o SubNumbersStandalone(Drop(s, ws + ds + ts), TRUE)
             ELSE IF ws > 0
                  THEN Take(s, ws) \o SubNumbersStandalone(Drop(s, ws), TRUE)
                  ELSE LET d0 == Run(Digits, s, 1)
                           k == IF d0 > 0 THEN d0 ELSE 1
                       IN  Take(s, k) \o SubNumbersStandalone(Drop(s, k), FALSE)

SubNumbersAttachedKept(s) == SubNumbersStandalone(s, TRUE)

\* re.sub(r'\s*\d+\s*', ' ', s), line 34: a match is a run of whitespace (possibly
\* empty), a run of digits, a run of whitespace (possibly empty).
RECURSIVE SubNumbers(_)
SubNumbers(s) ==
    IF s = <<>> THEN <<>>
    ELSE LET ws == Run(Spaces, s, 1)
             ds == Run(Digits, s, ws + 1)
             ts == Run(Spaces, s, ws + ds + 1)
         IN  IF ds > 0
             THEN <<SP>> \o SubNumbers(Drop(s, ws + ds + ts))
             ELSE IF ws > 0
                  THEN Take(s, ws) \o SubNumbers(Drop(s, ws))
                  ELSE <<Head(s)>> \o SubNumbers(Tail(s))

\* str.strip()
RECURSIVE StripRight(_)
StripRight(s) ==
    IF s # <<>> /\ IsSpace(s[Len(s)]) THEN StripRight(Take(s, Len(s) - 1)) ELSE s

Strip(s) == StripRight(Drop(s, Run(Spaces, s, 1)))

\* full_text: the texts of the pages whose text is truthy (non-empty)
RECURSIVE FullText(_)
FullText(pages) ==
    IF pages = <<>> THEN <<>>
    ELSE (IF Head(pages) # <<>> THEN <<Head(pages)>> ELSE <<>>)
           \o FullText(Tail(pages))

\* "\n".join(full_text)
RECURSIVE JoinNL(_)
JoinNL(texts) ==
    IF texts = <<>> THEN <<>>
    ELSE IF Len(texts) = 1 THEN texts[1]
    ELSE texts[1] \o <<NL>> \o JoinNL(Tail(texts))

\* the messages of the ValueErrors
MsgNoPages == "PDF contains no pages or is unreadable."
MsgNoText == "No readable text found in PDF."
MsgBackend == "PdfReadError"
MsgUnable == "Unable to extract text from the PDF. Please upload a readable document."

Fail(inner, msg) ==
    [ok |-> FALSE, err |-> msg, logged |-> inner,
     joined |-> <<>>, s2 |-> <<>>, s3 |-> <<>>, s4 |-> <<>>, text |-> <<>>]

\* the body of the try block, lines 13-36: the exception it raises, or the
\* text it returns with the intermediate texts of the cleaning steps
TryBody(p) ==
    IF ~p.readable THEN Fail(MsgBackend, MsgBackend)
    ELSE IF Len(p.pages) = 0 THEN Fail(MsgNoPages, MsgNoPages)
    ELSE IF FullText(p.pages) = <<>> THEN Fail(MsgNoText, MsgNoText)
    ELSE LET joined == JoinNL(FullText(p.pages))
             s2 == SubNewlines(joined)
             s3 == SubHyphens(s2)
             s4 == SubNumbers(s3)
         IN  [ok |-> TRUE, err |-> "", logged |-> "",
              joined |-> joined, s2 |-> s2, s3 |-> s3, s4 |-> s4,
              text |-> Strip(s4)]

\* the except clause, lines 38-41: every exception of the body, the two
\* ValueErrors included, is printed and replaced by one ValueError
ExtractAndClean(p) ==
    LET r == TryBody(p)
    IN  IF r.ok THEN r ELSE Fail(r.logged, MsgUnable)

----------------------------------------------------------------------------
(* Bounded inputs *)

StrsUpTo(n) == UNION {[1..k -> Alphabet] : k \in 0..n}

\* page break of a generated document
PB == "|"

RECURSIVE Count(_, _)
Count(s, c) ==
    IF s = <<>> THEN 0 ELSE (IF Head(s) = c THEN 1 ELSE 0) + Count(Tail(s), c)

\* the pages of a text with page breaks: one more page than breaks
RECURSIVE SplitPages(_)
SplitPages(s) ==
    LET n == Run(Alphabet, s, 1)
    IN  IF n = Len(s) THEN <<s>>
        ELSE <<Take(s, n)>> \o SplitPages(Drop(s, n + 1))

\* documents of at most MaxPages pages and at most MaxChars characters in all
Docs ==
    {<<>>} \cup
    {SplitPages(s) : s \in
        {t \in UNION {[1..k -> Alphabet \cup {PB}] : k \in 0..(MaxChars + MaxPages - 1)} :
            /\ Count(t, PB) < MaxPages
            /\ Len(t) - Count(t, PB) <= MaxChars}}

Corrupt == [readable |-> FALSE, pages |-> <<>>]
Pdfs == {Corrupt} \cup {[readable |-> TRUE, pages |-> d] : d \in Docs}

NoRes == Fail("", "")

NoText == [set |-> FALSE, text |-> <<>>]

NormIdle ==
    /\ npc = "start"
    /\ pdf = Corrupt
    /\ res = NoRes
    /\ res2 = NoRes
    /\ hin = <<>>
    /\ hout = <<>>

ChatIdle ==
    /\ hpc = "idle"
    /\ runs = 0
    /\ file = <<>>
    /\ bound = FALSE
    /\ text = <<>>
    /\ calls = 0
    /\ raised = ""
    /\ hsent = <<>>
    /\ disk = {}
    /\ session = NoText
    /\ lastGood = NoText
    /\ buttons = FALSE
    /\ qpc = "idle"
    /\ clicks = 0
    /\ qtext = NoText
    /\ qsent = <<>>

----------------------------------------------------------------------------
(* SpecNorm *)

InitNorm ==
    /\ npc = "start"
    /\ pdf \in Pdfs
    /\ res = NoRes
    /\ res2 = NoRes
    /\ hin = <<>>
    /\ hout = <<>>
    /\ ChatIdle

Normalize ==
    /\ npc = "start"
    /\ res' = ExtractAndClean(pdf)
    /\ npc' = "done"
    /\ UNCHANGED <<pdf, res2, hin, hout, chatVars>>

\* the cleaned text handed back as the only page of a PDF
SecondPass ==
    /\ npc = "done"
    /\ res.ok
    /\ res2' = ExtractAndClean([readable |-> TRUE, pages |-> <<res.text>>])
    /\ npc' = "second"
    /\ UNCHANGED <<pdf, res, hin, hout, chatVars>>

NextNorm == Normalize \/ SecondPass

SpecNorm == InitNorm /\ [][NextNorm]_vars

----------------------------------------------------------------------------
(* SpecHyphen: line 32 alone.  Its input is the output of line 30, any     *)
(* text without a newline.                                                 *)

HyphenTexts == UNION {[1..k -> Alphabet \ {NL}] : k \in 1..MaxHyphenText}

InitHyphen ==
    /\ npc = "start"
    /\ pdf = Corrupt
    /\ res = NoRes
    /\ res2 = NoRes
    /\ hin \in HyphenTexts
    /\ hout = <<>>
    /\ ChatIdle

HyphenStep ==
    /\ hout = <<>>
    /\ hout' = <<SubHyphens(hin)>>
    /\ UNCHANGED <<npc, pdf, res, res2, hin, chatVars>>

NextHyphen == HyphenStep

SpecHyphen == InitHyphen /\ [][NextHyphen]_vars

----------------------------------------------------------------------------
(* Spec: one chat session.  handle_message runs one at a time; a Create    *)
(* Quiz click may be handled while it is suspended at an await.  An action *)
(* is the code from one await (a Message.send) to the next.                *)

Doc(pages) == [readable |-> TRUE, pages |-> pages]

\* the PDFs a user uploads
UploadPdfs ==
    {Corrupt, Doc(<<>>), Doc(<< <<>> >>), Doc(<< <<SP>> >>),
     Doc(<< <<"a">> >>), Doc(<< <<"a">>, <<>>, <<"a">> >>)}

\* message.elements: at most one element, of some mime type, whose content
\* is None (<<>>) or an uploaded PDF
Elements ==
    [mime : {"application/pdf", "text/plain"},
     content : {<<>>} \cup {<<p>> : p \in UploadPdfs}]
Messages == {<<>>} \cup {<<e>> : e \in Elements}

\* what the file system does to lines 107-109: nothing, NamedTemporaryFile
\* raises, or tmpfile.write raises
Faults == {"none", "create", "write"}

Msg(kind, err, t) == [kind |-> kind, err |-> err, text |-> t]

\* summarize_text: the prompt, the text between its fixed head and tail
SummaryHead == "Please summarize the following document, ...:"
SummaryTail == "Summary:"
SummarizeText(t) == <<SummaryHead>> \o t \o <<SummaryTail>>

\* generate_quiz: a list of one string, the prompt or the refusal
QuizHead == "Based on the following text, please generate a quiz. ...:"
QuizTail == "Quiz:"
NoQuiz == "No quiz can be generated for empty text."
GenerateQuiz(t) ==
    IF t = <<>> THEN << <<NoQuiz>> >>
    ELSE << <<QuizHead>> \o t \o <<QuizTail>> >>

\* bug variant: no except Exception clause
ExceptClauseValueOnly(exc) ==
    IF exc = "ValueError" THEN "value" ELSE "none"

\* the except clause of lines 154-163 that handles an exception
ExceptClause(exc) ==
    IF exc = "ValueError" THEN "value"
    ELSE IF exc \in {"OSError"} THEN "generic"
    ELSE "none"

\* bug variant: the text is stored whatever the extraction did
StoreTextAlways(sess, r) == [set |-> TRUE, text |-> r.text]

\* lines 111-114: user_session.set runs only when the extraction returned
StoreText(sess, r) ==
    IF r.ok THEN [set |-> TRUE, text |-> r.text] ELSE sess

\* lines 164-167
Removed(d, isBound, run) == IF isBound /\ run \in d THEN d \ {run} ELSE d

Init ==
    /\ NormIdle
    /\ ChatIdle

quizVars == <<buttons, qpc, clicks, qtext, qsent>>

\* lines 81-94: up to the send of "Please upload" or of "Processing"
Receive ==
    /\ hpc = "idle"
    /\ runs < MaxRuns
    /\ \E m \in Messages :
        LET files == SelectSeq(m, LAMBDA e : e.mime = "application/pdf")
        IN  /\ file' = IF files = <<>> THEN <<>> ELSE <<files[1]>>
            /\ hsent' = IF files = <<>> THEN <<Msg("please_upload", "", <<>>)>>
                        ELSE <<Msg("processing", "", <<>>)>>
            /\ hpc' = IF files = <<>> THEN "idle" ELSE "processing"
    /\ runs' = runs + 1
    /\ bound' = FALSE
    /\ text' = <<>>
    /\ calls' = 0
    /\ raised' = ""
    /\ UNCHANGED <<normVars, disk, session, lastGood, quizVars>>

\* lines 96-129 and, on an exception, 154-163: up to the next send
Process ==
    /\ hpc = "processing"
    /\ \E fault \in Faults :
        LET content == file[1].content
            r == ExtractAndClean(content[1])
            exc == IF fault # "none" THEN "OSError"
                   ELSE IF ~r.ok THEN "ValueError" ELSE ""
            clause == ExceptClause(exc)
        IN  IF content = <<>>
            THEN /\ hsent' = Append(hsent, Msg("no_content", "", <<>>))
                 /\ UNCHANGED <<bound, text, calls, raised, disk, session, lastGood>>
                 /\ hpc' = "finally"
            ELSE /\ disk' = IF fault = "create" THEN disk ELSE disk \cup {runs}
                 /\ bound' = (fault = "none")
                 /\ calls' = IF fault = "none" THEN 1 ELSE 0
                 /\ text' = IF exc = "" THEN r.text ELSE <<>>
                 /\ session' = IF fault = "none" THEN StoreText(session, r) ELSE session
                 /\ lastGood' = IF exc = "" THEN [set |-> TRUE, text |-> r.text]
                                ELSE lastGood
                 /\ hsent' =
                      IF exc = ""
                      THEN Append(hsent, Msg("generating_summary", "", <<>>))
                      ELSE IF clause = "value"
                      THEN Append(hsent, Msg("value_error", r.err, <<>>))
                      ELSE IF clause = "generic"
                      THEN Append(hsent, Msg("unexpected", exc, <<>>))
                      ELSE hsent
                 /\ raised' = IF exc # "" /\ clause = "none" THEN exc ELSE ""
                 /\ hpc' = IF exc = "" THEN "summary" ELSE "finally"
    /\ UNCHANGED <<normVars, runs, file, quizVars>>

\* lines 139-142
SendSummary ==
    /\ hpc = "summary"
    /\ hsent' = Append(hsent, Msg("summary", "", SummarizeText(text)))
    /\ hpc' = "summarized"
    /\ UNCHANGED <<normVars, runs, file, bound, text, calls, raised, disk,
                   session, lastGood, quizVars>>

\* lines 145-152, and 164-167 when nothing is sent
SendSuccess ==
    /\ hpc = "summarized"
    /\ IF text # <<>>
       THEN /\ hsent' = Append(hsent, Msg("success", "", <<>>))
            /\ buttons' = TRUE
            /\ hpc' = "finally"
            /\ UNCHANGED disk
       ELSE /\ disk' = Removed(disk, bound, runs)
            /\ hpc' = "idle"
            /\ UNCHANGED <<hsent, buttons>>
    /\ UNCHANGED <<normVars, runs, file, bound, text, calls, raised,
                   session, lastGood, qpc, clicks, qtext, qsent>>

\* lines 164-167, after the last send
Finally ==
    /\ hpc = "finally"
    /\ disk' = Removed(disk, bound, runs)
    /\ hpc' = "idle"
    /\ UNCHANGED <<normVars, runs, file, bound, text, calls, raised, hsent,
                   session, lastGood, quizVars>>

\* on_create_quiz, lines 172-183: up to the first send
ClickQuiz ==
    /\ buttons
    /\ qpc = "idle"
    /\ clicks < MaxClicks
    /\ clicks' = clicks + 1
    /\ qtext' = session
    /\ IF ~session.set \/ session.text = <<>>
       THEN /\ qsent' = <<Msg("no_pdf_text", "", <<>>)>>
            /\ qpc' = "idle"
       ELSE /\ qsent' = <<Msg("generating_quiz", "", <<>>)>>
            /\ qpc' = "generating"
    /\ UNCHANGED <<normVars, hpc, runs, file, bound, text, calls, raised,
                   hsent, disk, session, lastGood, buttons>>

\* on_create_quiz, lines 185-195
SendQuiz ==
    /\ qpc = "generating"
    /\ qsent' = Append(qsent, Msg("quiz", "", GenerateQuiz(qtext.text)[1]))
    /\ qpc' = "idle"
    /\ UNCHANGED <<normVars, hpc, runs, file, bound, text, calls, raised,
                   hsent, disk, session, lastGood, buttons, clicks, qtext>>

Next ==
    \/ Receive
    \/ Process
    \/ SendSummary
    \/ SendSuccess
    \/ Finally
    \/ ClickQuiz
    \/ SendQuiz

Spec == Init /\ [][Next]_vars

----------------------------------------------------------------------------
(* Properties of the normalizer (SpecNorm, SpecHyphen) *)

IsBlank(t) == \A i \in 1..Len(t) : IsSpace(t[i])
AllBlank(pages) == \A i \in 1..Len(pages) : IsBlank(pages[i])

\* C1: a document with no pages, or whose pages all hold only whitespace,
\* makes the normalizer fail with an empty-document error (the no-pages or
\* the no-readable-text ValueError): it returns no string.
C1_BlankDocumentFails ==
    (npc # "start" /\ pdf.readable /\ AllBlank(pdf.pages))
        => (~res.ok /\ res.logged \in {MsgNoPages, MsgNoText})

C1_BlankPagesReturned ==
    /\ npc = "done"
    /\ pdf.pages = << <<SP, SP, SP>>, <<>> >>
    /\ res.ok
    /\ res.text = <<>>

\* C2: whenever the normalizer returns, the returned string is non-empty.
C2_SuccessNonEmpty ==
    (npc # "start" /\ res.ok) => Len(res.text) >= 1

C2_DigitPageReturnsEmpty ==
    /\ npc = "done"
    /\ pdf.pages = << <<"1">> >>
    /\ res.ok
    /\ res.text = <<>>

\* C6: step 4 replaces each digit run that stands between whitespace (or an
\* end of the text), with that whitespace, by one space and changes nothing
\* else: a digit run next to a non-whitespace character stays.
C6_OnlyStandaloneNumbersRemoved ==
    (npc # "start" /\ res.ok) => res.s4 = SubNumbersStandalone(res.s3, TRUE)

C6_AttachedDigitsRemoved ==
    /\ npc = "done"
    /\ pdf.pages = << <<"a", "1", "a">> >>
    /\ res.s3 = <<"a", "1", "a">>
    /\ res.s4 = <<"a", SP, "a">>

\* a word character, a hyphen, whitespace, a word character
HasSplit(t) ==
    \E i \in 1..Len(t) :
        /\ IsWord(t[i])
        /\ i < Len(t)
        /\ t[i + 1] = HY
        /\ Run(Spaces, t, i + 2) > 0
        /\ Run(WordChars, t, i + 2 + Run(Spaces, t, i + 2)) > 0

\* C7: the text step 3 produces holds no word character followed by a
\* hyphen, whitespace and a word character.
C7_NoSplitRemains ==
    hout # <<>> => ~HasSplit(hout[1])

C7_ChainedSplitRemains ==
    /\ hin = <<"a", HY, SP, "a", HY, SP, "a">>
    /\ hout = << <<"a", "a", HY, SP, "a">> >>

\* "a-1" and "a": the digit removal leaves "a- a", which a second pass joins
HyphenDigitPdf == [readable |-> TRUE, pages |-> << <<"a", HY, "1">>, <<"a">> >>]

\* C8: the normalizer is not idempotent: on the document ["a-1", "a"] it
\* returns a text that a second pass over it changes.
C8_SecondPassDiffers ==
    (npc = "second" /\ pdf = HyphenDigitPdf)
        => (res.ok /\ res2.ok /\ res2.text # res.text)

C8_SecondPassRan ==
    /\ npc = "second"
    /\ pdf = HyphenDigitPdf
    /\ res.text = <<"a", HY, SP, "a">>
    /\ res2.text = <<"a", "a">>

\* the page texts in page order, a newline between two that are not empty
RECURSIVE RefConcat(_)
RefConcat(pages) ==
    IF pages = <<>> THEN <<>>
    ELSE LET n == Len(pages)
             front == RefConcat(Take(pages, n - 1))
         IN  IF pages[n] = <<>> THEN front
             ELSE IF front = <<>> THEN pages[n]
             ELSE front \o <<NL>> \o pages[n]

\* one space for every maximal run of newlines
RECURSIVE RefCollapse(_)
RefCollapse(t) ==
    IF t = <<>> THEN <<>>
    ELSE LET n == Len(t)
             front == RefCollapse(Take(t, n - 1))
         IN  IF t[n] # NL THEN front \o <<t[n]>>
             ELSE IF n > 1 /\ t[n - 1] = NL THEN front
             ELSE front \o <<SP>>

\* from the first to the last character that is not whitespace
RefTrim(t) ==
    LET ink == {i \in 1..Len(t) : ~IsSpace(t[i])}
    IN  IF ink = {} THEN <<>>
        ELSE SubSeq(t, CHOOSE i \in ink : \A j \in ink : i <= j,
                       CHOOSE i \in ink : \A j \in ink : i >= j)

Plain(pages) ==
    \A i \in 1..Len(pages) : \A j \in 1..Len(pages[i]) :
        pages[i][j] # HY /\ ~IsDigit(pages[i][j])

\* C9: for a document without hyphens and digits and with some page that is
\* not blank, the output is the non-empty page texts in page order joined by
\* newlines, each run of newlines replaced by one space, trimmed.
C9_PlainDocument ==
    (npc # "start" /\ pdf.readable /\ Plain(pdf.pages) /\ ~AllBlank(pdf.pages))
        => (res.ok /\ res.text = RefTrim(RefCollapse(RefConcat(pdf.pages))))

C9_NewlineRunAcrossPages ==
    /\ npc = "done"
    /\ pdf.pages = << <<"a", NL>>, <<"a", SP>> >>
    /\ res.joined = <<"a", NL, NL, "a", SP>>
    /\ res.text = <<"a", SP, "a">>

----------------------------------------------------------------------------
(* Properties of the chat session (Spec) *)

Last(q) == q[Len(q)]

\* handle_message has returned from a message that carried a PDF
Handled == hpc = "idle" /\ file # <<>>

\* C3: when handle_message has exited, no temporary file it created is left.
C3_TempFileDeleted ==
    hpc = "idle" => disk = {}

C3_WriteFailureLeavesFile ==
    /\ Handled
    /\ ~bound
    /\ runs \in disk
    /\ Last(hsent).kind = "unexpected"

\* C4: for a message that carries a PDF, no exception leaves handle_message
\* and the last message of the run tells the outcome: the missing content,
\* the failure of the temporary file ("unexpected"), the failure of the
\* extraction (the ValueError's text), or the summary.
C4_FailuresReported ==
    Handled =>
        /\ raised = ""
        /\ hsent # <<>>
        /\ IF file[1].content = <<>> THEN Last(hsent).kind = "no_content"
           ELSE IF calls = 0 THEN Last(hsent).kind = "unexpected"
           ELSE IF ~ExtractAndClean(file[1].content[1]).ok
                THEN Last(hsent).kind = "value_error" /\ Last(hsent).err # ""
           ELSE Last(hsent).kind \in {"summary", "success"}

C4_TempFileFailureReported ==
    /\ Handled
    /\ file[1].content # <<>>
    /\ calls = 0
    /\ raised = ""
    /\ Last(hsent) = Msg("unexpected", "OSError", <<>>)

Errors(q) == SelectSeq(q, LAMBDA m : m.kind = "value_error")

\* C5: an upload without pages, or without a page that yields text, is
\* answered once with the empty-document message (no pages / no readable
\* text) after one extraction; the generic unreadable-document message is
\* sent only when the extraction backend failed.
C5_EmptyDocumentMessage ==
    (Handled /\ calls = 1) =>
        LET p == file[1].content[1]
        IN  /\ (p.readable /\ FullText(p.pages) = <<>>)
                  => /\ Len(Errors(hsent)) = 1
                     /\ Errors(hsent)[1].err \in {MsgNoPages, MsgNoText}
            /\ (\E i \in 1..Len(hsent) : hsent[i].err = MsgUnable)
                  => ~p.readable

C5_GenericMessageForNoPages ==
    /\ Handled
    /\ calls = 1
    /\ file[1].content = <<Doc(<<>>)>>
    /\ Last(hsent) = Msg("value_error", MsgUnable, <<>>)

\* C10: the stored text is what the last successful extraction returned,
\* whatever was received since; on_create_quiz answers "No PDF text found"
\* exactly when the text it read is missing or empty, and the quiz it sends
\* is built from the text it read.
C10_StoredTextIsLastGood ==
    /\ session = lastGood
    /\ qsent # <<>> =>
        /\ (qsent[1].kind = "no_pdf_text") <=> (~qtext.set \/ qtext.text = <<>>)
        /\ \A i \in 1..Len(qsent) :
              qsent[i].kind = "quiz"
                  => /\ qtext.text # <<>>
                     /\ qsent[i].text = <<QuizHead>> \o qtext.text \o <<QuizTail>>

C10_QuizAfterFailedUpload ==
    /\ Handled
    /\ runs = 2
    /\ Last(hsent).kind = "value_error"
    /\ session = [set |-> TRUE, text |-> <<"a">>]
    /\ Len(qsent) = 2
    /\ qsent[2] = Msg("quiz", "", <<QuizHead, "a", QuizTail>>)

============================================================================
